---- MODULE Spec2Model ----
(***************************************************************************)
(* Grid-based spatial queries of chussy2-m: the A* path finder of          *)
(* docs/js/pathfinding.js and the ray marcher / collision probe of         *)
(* docs/js/map.js, as state machines.                                      *)
(*                                                                         *)
(* Numbers.  Path costs are kept in units of 1/70 of the default straight  *)
(* cost: STRAIGHT = 70 stands for 1 and DIAGONAL = 99 for Math.SQRT2       *)
(* (99/70 is a continued-fraction convergent of the square root of 2, so   *)
(* a straight/diagonal step count decides the order of two path costs as   *)
(* it does with the real numbers for every path shorter than 70 steps).    *)
(* Floating-point rounding of path costs is not modelled.                  *)
(*                                                                         *)
(* Ramda.  The source calls Ramda's R.reduce, R.until, R.remove, R.append, *)
(* R.tail, R.prepend, R.cond and R.propEq.  R.reduce calls its reducer     *)
(* with two arguments, (accumulator, element): it passes no index.         *)
(* R.propEq is read as the source's comment reads it, propEq(name, value). *)
(***************************************************************************)
EXTENDS Integers, Sequences, FiniteSets, TLC

VARIABLES
    MAP,        \* the occupancy grid: a sequence of rows of 0 (walkable) / 1 (wall)
    MAX_LEN,    \* PF.MAX_PATH_LENGTH ?? Infinity, pulled once at module load
    pc,         \* "idle" | "search" (inside R.until) | "returned" | "marching" |
                \* "rayReturned" | "probed" | "loading" | "fatal" | "spawning" | "spawned"
    ctx,        \* the snapped endpoints {sx, sy, gx, gy} of the call in flight
    open,       \* state.open: list of {x, y, f}
    gScore,     \* state.gScore: object key -> g
    fScore,     \* state.fScore: object key -> f
    parents,    \* state.parents: object key -> key | null
    closed,     \* state.closed: object key -> true
    currentK,   \* state.currentK: key | undefined
    steps,      \* number of times step(goal) was applied in the call in flight
    result,     \* what findPath produced: null, a path, or a thrown error
    ray,        \* the locals of the castRay call in flight
    rayResult,  \* what castRay returned, in thousandths of a world unit
    collision,  \* the checkWallCollision call in flight and what it returned
    spawn       \* the spawnEnemy call in flight and the enemy it returned

-----------------------------------------------------------------------------
(* Configuration: docs/js/pathfinding.js lines 5-13.                       *)

\* PF.STRAIGHT_COST ?? 1, in units of 1/70.
STRAIGHT == 70
\* PF.DIAGONAL_COST ?? Math.SQRT2, in units of 1/70.
DIAGONAL == 99
\* JavaScript's Infinity: larger than every cost the model can build.
Infinity == 1000000
\* GAME_CONFIG.TILE_SIZE (utils.js): pixels per tile, used by snapToGrid only.
TILE_SIZE == 2

\* a + b on JavaScript numbers that may be Infinity
Plus(a, b) == IF a = Infinity \/ b = Infinity THEN Infinity ELSE a + b

-----------------------------------------------------------------------------
(* JavaScript values.                                                      *)

\* null and undefined where a key is expected (a key is a list of characters)
null == <<"null">>
undefined == <<"undefined">>

\* null, undefined, an array index, or a thrown TypeError, where an index is expected
NullIdx == [t |-> "null", i |-> 0]
UndefinedIdx == [t |-> "undefined", i |-> 0]
TypeErrorIdx == [t |-> "TypeError", i |-> 0]
Idx(i) == [t |-> "index", i |-> i]

\* what findPath produces
NullResult == [kind |-> "null", path |-> <<>>]
PathResult(p) == [kind |-> "path", path |-> p]
Thrown(e) == [kind |-> e, path |-> <<>>]

-----------------------------------------------------------------------------
(* Helpers: docs/js/pathfinding.js lines 223-286.                          *)

Digits == <<"0", "1", "2", "3", "4", "5", "6", "7", "8", "9">>

\* String(n) for an integer n, as a list of characters
RECURSIVE NatStr(_)
NatStr(n) == IF n < 10 THEN <<Digits[n + 1]>>
             ELSE NatStr(n \div 10) \o <<Digits[(n % 10) + 1]>>

NumStr(n) == IF n < 0 THEN <<"-">> \o NatStr(-n) ELSE NatStr(n)

\* Number(s) for the characters of an integer
DigitVal(c) == CHOOSE d \in 0..9 : Digits[d + 1] = c

RECURSIVE NatVal(_)
NatVal(s) == IF Len(s) = 0 THEN 0
             ELSE 10 * NatVal(SubSeq(s, 1, Len(s) - 1)) + DigitVal(s[Len(s)])

Number(s) == IF Len(s) > 0 /\ s[1] = "-" THEN -NatVal(Tail(s)) ELSE NatVal(s)

\* `${x},${y}`
key(x, y) == NumStr(x) \o <<",">> \o NumStr(y)

\* R.map(Number, k.split(","))
unkey(k) ==
    LET c == CHOOSE j \in 1..Len(k) : k[j] = ","
    IN <<Number(SubSeq(k, 1, c - 1)), Number(SubSeq(k, c + 1, Len(k)))>>

inBounds(x, y) == y >= 0 /\ y < Len(MAP) /\ x >= 0 /\ x < Len(MAP[1])

walkable(x, y) == inBounds(x, y) /\ MAP[y + 1][x + 1] = 0

Abs(a) == IF a < 0 THEN -a ELSE a
Min(a, b) == IF a < b THEN a ELSE b
Max(a, b) == IF a > b THEN a ELSE b

\* the Manhattan distance in place of the octile distance
HManhattan(x1, y1, x2, y2) == STRAIGHT * (Abs(x1 - x2) + Abs(y1 - y2))

\* octile distance
H(x1, y1, x2, y2) ==
    LET dx == Abs(x1 - x2)
        dy == Abs(y1 - y2)
        m == Min(dx, dy)
        M == Max(dx, dy)
    IN DIAGONAL * m + STRAIGHT * (M - m)

\* the eight directions with their costs, in the source's order
Directions == << <<1, 0, STRAIGHT>>, <<-1, 0, STRAIGHT>>, <<0, 1, STRAIGHT>>,
                 <<0, -1, STRAIGHT>>, <<1, 1, DIAGONAL>>, <<1, -1, DIAGONAL>>,
                 <<-1, 1, DIAGONAL>>, <<-1, -1, DIAGONAL>> >>

\* the filter that drops diagonal moves cutting a wall corner
NoCornerCut(x, y, d) ==
    Abs(d[1]) + Abs(d[2]) = 1 \/ (walkable(x + d[1], y) /\ walkable(x, y + d[2]))

IsWalkableNeighbor(n) == walkable(n[1], n[2])

RECURSIVE MapToNeighbors(_, _, _)
MapToNeighbors(x, y, ds) ==
    IF ds = <<>> THEN <<>>
    ELSE << <<x + ds[1][1], y + ds[1][2], ds[1][3]>> >> \o MapToNeighbors(x, y, Tail(ds))

neighbors8(x, y) ==
    LET keep(d) == NoCornerCut(x, y, d)
    IN SelectSeq(MapToNeighbors(x, y, SelectSeq(Directions, keep)), IsWalkableNeighbor)

\* k in obj ? obj[k] : dflt
get(obj, k, dflt) == IF k \in DOMAIN obj THEN obj[k] ELSE dflt

\* { ...obj, [k]: v }
set(obj, k, v) == [kk \in (DOMAIN obj) \cup {k} |-> IF kk = k THEN v ELSE obj[kk]]

\* the empty object {}
EmptyObj == [kk \in {} |-> 0]

-----------------------------------------------------------------------------
(* findPath: docs/js/pathfinding.js lines 15-222.                          *)

\* A coordinate handed to findPath is carried as twice its value, so that
\* halves (1.5, 2.5, ...) are the non-integral inputs.
\* Number.isInteger(c) ? c : Math.floor(c / TILE_SIZE)
snapToGrid(twice) ==
    IF twice % 2 = 0 THEN twice \div 2 ELSE twice \div (2 * TILE_SIZE)

convertPixelCoordinatesToTileIFNeeded(startX, startY, endX, endY) ==
    [sx |-> snapToGrid(startX), sy |-> snapToGrid(startY),
     gx |-> snapToGrid(endX), gy |-> snapToGrid(endY)]

\* validateStartandEndPoints without its test of the goal cell
validateStartOnly(c) ==
    IF ~walkable(c.sx, c.sy) THEN "invalid"
    ELSE IF c.sx = c.gx /\ c.sy = c.gy THEN "done"
    ELSE "ok"

\* validateStartandEndPoints without its already-at-destination case
validateWithoutDone(c) ==
    IF ~walkable(c.sx, c.sy) \/ ~walkable(c.gx, c.gy) THEN "invalid" ELSE "ok"

\* the kind of the stage validateStartandEndPoints returns
validateStartandEndPoints(c) ==
    IF ~walkable(c.sx, c.sy) \/ ~walkable(c.gx, c.gy) THEN "invalid"
    ELSE IF c.sx = c.gx /\ c.sy = c.gy THEN "done"
    ELSE "ok"

\* The third argument the reducer of pickBestIndex receives for the element at
\* (0-based) position j: R.reduce passes none, so the parameter i is undefined.
ReducerIndexArg(j) == UndefinedIdx

\* (best, n, i) => (best === null || n.f < open[best].f ? i : best)
\* open[undefined] is undefined, and reading .f of it throws a TypeError.
pickBestCallback(best, n, i, o) ==
    IF best.t = "null" THEN i
    ELSE IF best.t = "undefined" THEN TypeErrorIdx
    ELSE IF n.f < o[best.i + 1].f THEN i
    ELSE best

RECURSIVE pickBestReduce(_, _, _)
pickBestReduce(best, o, j) ==
    IF j >= Len(o) \/ best.t = "TypeError" THEN best
    ELSE pickBestReduce(pickBestCallback(best, o[j + 1], ReducerIndexArg(j), o), o, j + 1)

pickBestIndex(o) == pickBestReduce(NullIdx, o, 0)

\* R.remove(idx, 1, open), idx 0-based
RemoveAt(o, idx) == SubSeq(o, 1, idx) \o SubSeq(o, idx + 2, Len(o))

\* the reducer of step, applied to one neighbour [nx, ny, stepCost]
stepNeighbor(acc, n, curK, cl, goal) ==
    LET nk == key(n[1], n[2])
        tentativeG == Plus(get(acc.gScore, curK, Infinity), n[3])
        f == Plus(tentativeG, H(n[1], n[2], goal.x, goal.y))
    IN IF get(cl, nk, FALSE) THEN acc
       ELSE IF tentativeG > MAX_LEN THEN acc
       ELSE IF tentativeG < get(acc.gScore, nk, Infinity)
            THEN [open |-> Append(acc.open, [x |-> n[1], y |-> n[2], f |-> f]),
                  gScore |-> set(acc.gScore, nk, tentativeG),
                  fScore |-> set(acc.fScore, nk, f),
                  parents |-> set(acc.parents, nk, curK)]
            ELSE acc

RECURSIVE stepReduce(_, _, _, _, _)
stepReduce(acc, ns, curK, cl, goal) ==
    IF ns = <<>> THEN acc
    ELSE stepReduce(stepNeighbor(acc, ns[1], curK, cl, goal), Tail(ns), curK, cl, goal)

\* step(goal)(state): [err, s], err the error thrown ("" when none), s the next state
step(goal, s) ==
    LET idx == pickBestIndex(s.open)
    IN IF idx.t = "null" THEN [err |-> "", s |-> s]
       ELSE IF idx.t # "index" THEN [err |-> "TypeError", s |-> s]
       ELSE LET current == s.open[idx.i + 1]
                curK == key(current.x, current.y)
                done == curK = goal.k
                openWithoutCurrent == RemoveAt(s.open, idx.i)
                start == [open |-> openWithoutCurrent, gScore |-> s.gScore,
                          fScore |-> s.fScore, parents |-> s.parents]
                expanded == IF done THEN start
                            ELSE stepReduce(start, neighbors8(current.x, current.y),
                                            curK, s.closed, goal)
            IN [err |-> "",
                s |-> [open |-> expanded.open, gScore |-> expanded.gScore,
                       fScore |-> expanded.fScore, parents |-> expanded.parents,
                       closed |-> set(s.closed, curK, TRUE), currentK |-> curK]]

doneOrEmpty(goal, s) == s.open = <<>> \/ s.currentK = goal.k

RECURSIVE minGReduce(_, _, _)
minGReduce(acc, o, g) ==
    IF o = <<>> THEN acc
    ELSE LET gk == get(g, key(o[1].x, o[1].y), Infinity)
         IN minGReduce(IF gk < acc THEN gk ELSE acc, Tail(o), g)

hardStopByG(s) == minGReduce(Infinity, s.open, s.gScore) > MAX_LEN

\* build(k, acc, parents, startK): the list of keys, or <<"RangeError">> when the
\* recursion never reaches startK (a null or cyclic parent chain overflows the stack;
\* a chain longer than the number of keys of parents cannot end).
RECURSIVE build(_, _, _, _, _)
build(k, acc, p, startK, fuel) ==
    IF k = startK THEN <<k>> \o acc
    ELSE IF fuel = 0 THEN <<"RangeError">>
    ELSE build(get(p, k, null), <<k>> \o acc, p, startK, fuel - 1)

RECURSIVE keysToCells(_)
keysToCells(ks) ==
    IF ks = <<>> THEN <<>>
    ELSE <<[x |-> unkey(ks[1])[1], y |-> unkey(ks[1])[2]]>> \o keysToCells(Tail(ks))

pathFromParents(p, startK, goalK) ==
    LET full == build(goalK, <<>>, p, startK, Cardinality(DOMAIN p) + 1)
    IN IF full = <<"RangeError">> THEN Thrown("RangeError")
       ELSE PathResult(keysToCells(Tail(full)))

finalize(startK, goalK, s) ==
    IF s.currentK = goalK
    THEN LET path == pathFromParents(s.parents, startK, goalK)
         IN IF path.kind # "path" THEN path
            ELSE IF get(s.gScore, goalK, Infinity) <= MAX_LEN THEN path
            ELSE NullResult
    ELSE NullResult

-----------------------------------------------------------------------------
(* The grids and configurations the model runs on.                         *)

\* the map shipped in docs/js/map.js
ShippedMAP == <<
    <<1, 1, 1, 1, 1, 1, 1, 1, 1, 1, 1, 1>>,
    <<1, 1, 0, 0, 0, 1, 1, 0, 0, 0, 1, 1>>,
    <<1, 0, 0, 0, 0, 0, 0, 0, 0, 0, 0, 1>>,
    <<1, 0, 0, 0, 0, 0, 0, 0, 0, 0, 0, 1>>,
    <<1, 0, 0, 0, 0, 1, 1, 0, 0, 0, 0, 1>>,
    <<1, 1, 0, 0, 1, 1, 1, 1, 0, 0, 1, 1>>,
    <<1, 1, 0, 0, 1, 1, 1, 1, 0, 0, 1, 1>>,
    <<1, 0, 0, 0, 0, 1, 1, 0, 0, 0, 0, 1>>,
    <<1, 0, 0, 0, 0, 0, 0, 0, 0, 0, 0, 1>>,
    <<1, 0, 0, 0, 0, 0, 0, 0, 0, 0, 0, 1>>,
    <<1, 1, 0, 0, 0, 1, 1, 0, 0, 0, 1, 1>>,
    <<1, 1, 1, 1, 1, 1, 1, 1, 1, 1, 1, 1>> >>

\* 5x5, border walls, interior open
Border5 == <<
    <<1, 1, 1, 1, 1>>,
    <<1, 0, 0, 0, 1>>,
    <<1, 0, 0, 0, 1>>,
    <<1, 0, 0, 0, 1>>,
    <<1, 1, 1, 1, 1>> >>

\* obstacle-free, 4 wide and 3 high
Open43 == <<
    <<0, 0, 0, 0>>,
    <<0, 0, 0, 0>>,
    <<0, 0, 0, 0>> >>

\* the cell (2,2) enclosed by occupied cells
Ring5 == <<
    <<0, 0, 0, 0, 0>>,
    <<0, 1, 1, 1, 0>>,
    <<0, 1, 0, 1, 0>>,
    <<0, 1, 1, 1, 0>>,
    <<0, 0, 0, 0, 0>> >>

\* wall corners: (0,0) -> (1,1) and (2,2) -> (3,1) would cut one
Corner43 == <<
    <<0, 1, 0, 0>>,
    <<0, 0, 0, 0>>,
    <<0, 0, 0, 1>> >>

PathGrids == {ShippedMAP, Border5, Open43, Ring5, Corner43}

\* largest tile index handed to findPath (the smallest is -1)
MaxCoord == 4
\* largest finite cap tried, in straight steps
MaxCapSteps == 1

\* the values of PF.MAX_PATH_LENGTH tried: unset, negative, and small finite caps
CapChoices == {Infinity, -STRAIGHT} \cup {k * STRAIGHT : k \in 0..MaxCapSteps}

\* the arguments tried, as twice their value: the integers -1..MaxCoord and the
\* halves between them
RawCoords == (-2)..(2 * MaxCoord + 1)

-----------------------------------------------------------------------------
(* The path finder as a state machine.                                     *)

vars == <<MAP, pc, MAX_LEN, ctx, open, gScore, fScore, parents, closed, currentK,
          steps, result, ray, rayResult, collision, spawn>>

rayVars == <<ray, rayResult>>

\* no castRay call in flight
NoRay == [rayAngleRadians |-> 1, playerFacingAngleRadians |-> 1,
          rayDirectionVectorX |-> 0, rayDirectionVectorY |-> 0,
          fisheyeCorrectionFactor |-> 0,
          playerWorldPositionX |-> 0, playerWorldPositionY |-> 0,
          currentRayPositionX |-> 0, currentRayPositionY |-> 0,
          accumulatedRayDistance |-> 0, roundingError |-> 0, unitSteps |-> 0,
          indexedOutOfBounds |-> FALSE]
NoRayResult == [returned |-> FALSE, value |-> 0]

\* no checkWallCollision call in flight (lengths in tenths of a world unit)
NoCollision == [x |-> 0, y |-> 0, radius |-> 0, returned |-> FALSE, value |-> FALSE]

\* no spawnEnemy call in flight (positions in tenths of a tile)
NoEnemy == [x |-> 0, y |-> 0, health |-> 0, type |-> "", lastMove |-> 0,
            lastPathUpdate |-> 0, pathIndex |-> 0, path |-> undefined]
NoSpawn == [tried |-> 0, found |-> FALSE, x |-> 0, y |-> 0, returned |-> FALSE,
            enemy |-> NoEnemy]

NoCtx == [sx |-> 0, sy |-> 0, gx |-> 0, gy |-> 0]
NoResult == [kind |-> "none", path |-> <<>>]

\* no call in flight: nothing of a search exists
Blank ==
    /\ ctx = NoCtx
    /\ open = <<>>
    /\ gScore = EmptyObj
    /\ fScore = EmptyObj
    /\ parents = EmptyObj
    /\ closed = EmptyObj
    /\ currentK = undefined
    /\ steps = 0
    /\ result = NoResult

Init ==
    /\ MAP \in PathGrids
    /\ MAX_LEN \in CapChoices
    /\ pc = "idle"
    /\ Blank
    /\ ray = NoRay
    /\ rayResult = NoRayResult
    /\ collision = NoCollision
    /\ spawn = NoSpawn

\* the state record the source threads through R.until
S == [open |-> open, gScore |-> gScore, fScore |-> fScore, parents |-> parents,
      closed |-> closed, currentK |-> currentK]

startK == key(ctx.sx, ctx.sy)
goal == [x |-> ctx.gx, y |-> ctx.gy, k |-> key(ctx.gx, ctx.gy)]

\* findPath up to the first test of R.until: snap, validate, and for an "ok" stage
\* the init state of runAstar
FindPath(startX, startY, endX, endY) ==
    /\ pc = "idle"
    /\ LET c == convertPixelCoordinatesToTileIFNeeded(startX, startY, endX, endY)
           kind == validateStartandEndPoints(c)
       IN /\ ctx' = c
          /\ steps' = 0
          /\ IF kind = "ok"
             THEN /\ pc' = "search"
                  /\ open' = <<[x |-> c.sx, y |-> c.sy, f |-> H(c.sx, c.sy, c.gx, c.gy)]>>
                  /\ gScore' = set(EmptyObj, key(c.sx, c.sy), 0)
                  /\ fScore' = set(EmptyObj, key(c.sx, c.sy), H(c.sx, c.sy, c.gx, c.gy))
                  /\ parents' = set(EmptyObj, key(c.sx, c.sy), null)
                  /\ closed' = EmptyObj
                  /\ currentK' = undefined
                  /\ result' = NoResult
             ELSE /\ pc' = "returned"
                  /\ result' = IF kind = "invalid" THEN NullResult ELSE PathResult(<<>>)
                  /\ UNCHANGED <<open, gScore, fScore, parents, closed, currentK>>
    /\ UNCHANGED <<MAP, MAX_LEN, ray, rayResult, collision, spawn>>

\* one turn of R.until whose stop test is false: step(goal) is applied; an error it
\* throws leaves findPath
Step ==
    /\ pc = "search"
    /\ ~(doneOrEmpty(goal, S) \/ hardStopByG(S))
    /\ LET r == step(goal, S)
       IN /\ steps' = steps + 1
          /\ IF r.err # ""
             THEN /\ pc' = "returned"
                  /\ result' = Thrown(r.err)
                  /\ UNCHANGED <<open, gScore, fScore, parents, closed, currentK>>
             ELSE /\ pc' = "search"
                  /\ open' = r.s.open
                  /\ gScore' = r.s.gScore
                  /\ fScore' = r.s.fScore
                  /\ parents' = r.s.parents
                  /\ closed' = r.s.closed
                  /\ currentK' = r.s.currentK
                  /\ result' = NoResult
    /\ UNCHANGED <<MAP, MAX_LEN, ctx, ray, rayResult, collision, spawn>>

\* the stop test of R.until is true: runAstar returns and processFinalResult
\* finalizes the end state
Finish ==
    /\ pc = "search"
    /\ doneOrEmpty(goal, S) \/ hardStopByG(S)
    /\ pc' = "returned"
    /\ result' = finalize(startK, goal.k, S)
    /\ UNCHANGED <<MAP, MAX_LEN, ctx, open, gScore, fScore, parents, closed, currentK, steps,
                   ray, rayResult, collision, spawn>>

\* the caller has the result; the structures of the call are garbage
CallerResumes ==
    /\ pc = "returned"
    /\ pc' = "idle"
    /\ ctx' = NoCtx
    /\ open' = <<>>
    /\ gScore' = EmptyObj
    /\ fScore' = EmptyObj
    /\ parents' = EmptyObj
    /\ closed' = EmptyObj
    /\ currentK' = undefined
    /\ steps' = 0
    /\ result' = NoResult
    /\ UNCHANGED <<MAP, MAX_LEN, ray, rayResult, collision, spawn>>

\* a caller invokes findPath with some arguments
Call ==
    /\ pc = "idle"
    /\ \E startX, startY, endX, endY \in RawCoords : FindPath(startX, startY, endX, endY)

Next ==
    \/ Call
    \/ Step
    \/ Finish
    \/ CallerResumes

Spec == Init /\ [][Next]_vars

-----------------------------------------------------------------------------
(* castRay: docs/js/map.js lines 16-81.                                    *)
(*                                                                         *)
(* Lengths are kept in tenths of a world unit.  An angle is an index into  *)
(* UnitVectors, twelve directions whose cosine and sine are exact in       *)
(* tenths (multiples of 3-4-5 triangles), so that Math.hypot of a whole    *)
(* number of unit steps is exact.  The fisheye factor is kept in           *)
(* hundredths and the value castRay returns in thousandths.                *)
(*                                                                         *)
(* Rounding.  The positions and Math.hypot are IEEE doubles: the distance  *)
(* the code holds after k unit steps is k up to a rounding error, and      *)
(* which side of k it falls on depends on the bits of the operands.  The   *)
(* model keeps the exact length and, next to it, the sign of that error    *)
(* (roundingError), chosen freely among the signs the operands allow.      *)

MAX_DISTANCE == 200
MAP_HEIGHT == Len(MAP)
MAP_WIDTH == Len(MAP[1])

\* n world units, in tenths
Units(n) == 10 * n

\* (10 cos a, 10 sin a), counter-clockwise from the positive x axis
UnitVectors == << <<10, 0>>, <<8, 6>>, <<6, 8>>, <<0, 10>>, <<-6, 8>>, <<-8, 6>>,
                  <<-10, 0>>, <<-8, -6>>, <<-6, -8>>, <<0, -10>>, <<6, -8>>, <<8, -6>> >>

Angles == 1..Len(UnitVectors)

\* Math.cos(a), Math.sin(a), in tenths
Cos(a) == UnitVectors[a][1]
Sin(a) == UnitVectors[a][2]

\* Math.cos(a - v), in hundredths
CosOfDifference(a, v) == Cos(a) * Cos(v) + Sin(a) * Sin(v)

\* the integer square root, by bisection
RECURSIVE SqrtBetween(_, _, _)
SqrtBetween(n, lo, hi) ==
    IF lo >= hi THEN lo
    ELSE LET mid == (lo + hi + 1) \div 2
         IN IF mid * mid <= n THEN SqrtBetween(n, mid, hi) ELSE SqrtBetween(n, lo, mid - 1)

\* the sum of the legs in place of the hypotenuse
hypotAsSum(dx, dy) == Abs(dx) + Abs(dy)

\* Math.hypot(dx, dy), in tenths
hypot(dx, dy) == SqrtBetween(dx * dx + dy * dy, 0, Abs(dx) + Abs(dy))

\* Math.floor in place of Math.trunc
truncAsFloor(p) == p \div 10

\* Math.trunc of a length in tenths: toward zero
trunc(p) == IF p >= 0 THEN p \div 10 ELSE -((-p) \div 10)

\* a coordinate (in tenths) that a double holds exactly: a whole number of halves
ExactDouble(p) == p % 5 = 0

\* the signs the rounding error of Math.hypot(x - px, y - py) can have after unit
\* steps from (px, py) along (dx, dy): none when every operand is exact (an
\* axis-aligned ray from an exactly held origin), any otherwise
roundingErrors(px, py, dx, dy) ==
    IF (dx = 0 \/ dy = 0) /\ ExactDouble(px) /\ ExactDouble(py) THEN {0} ELSE {-1, 0, 1}

\* the loop test accumulatedRayDistance < MAX_DISTANCE, on the rounded distance
belowMaxDistance(r) ==
    \/ r.accumulatedRayDistance < Units(MAX_DISTANCE)
    \/ r.accumulatedRayDistance = Units(MAX_DISTANCE) /\ r.roundingError < 0

\* the test "ray has exited map bounds" without its upper bounds
rayExitedBoundsBelowOnly(cellX, cellY) == cellY < 0 \/ cellX < 0

\* the test "ray has exited map bounds"
rayExitedBounds(cellX, cellY) ==
    cellY < 0 \/ cellY >= MAP_HEIGHT \/ cellX < 0 \/ cellX >= MAP_WIDTH

\* castRay up to the first test of its while loop
CastRay(rayAngleRadians, playerWorldPositionX, playerWorldPositionY, playerFacingAngleRadians) ==
    /\ ray' = [rayAngleRadians |-> rayAngleRadians,
               playerFacingAngleRadians |-> playerFacingAngleRadians,
               rayDirectionVectorX |-> Cos(rayAngleRadians),
               rayDirectionVectorY |-> Sin(rayAngleRadians),
               fisheyeCorrectionFactor |->
                   CosOfDifference(rayAngleRadians, playerFacingAngleRadians),
               playerWorldPositionX |-> playerWorldPositionX,
               playerWorldPositionY |-> playerWorldPositionY,
               currentRayPositionX |-> playerWorldPositionX,
               currentRayPositionY |-> playerWorldPositionY,
               accumulatedRayDistance |-> 0,
               roundingError |-> 0,
               unitSteps |-> 0,
               indexedOutOfBounds |-> FALSE]
    /\ rayResult' = NoRayResult
    /\ pc' = "marching"

\* one turn of the while loop: advance a unit step, then return at an exit from the
\* map bounds or at a wall
RayMarch ==
    /\ pc = "marching"
    /\ belowMaxDistance(ray)
    /\ LET x == ray.currentRayPositionX + ray.rayDirectionVectorX
           y == ray.currentRayPositionY + ray.rayDirectionVectorY
           acc == hypot(x - ray.playerWorldPositionX, y - ray.playerWorldPositionY)
           currentMapCellX == trunc(x)
           currentMapCellY == trunc(y)
           exited == rayExitedBounds(currentMapCellX, currentMapCellY)
           \* MAP[currentMapCellY][currentMapCellX] is read when the bounds test is
           \* false: a row MAP has not makes the read throw (the call is left), a
           \* column the row has not gives undefined, which is not 1
           noRow == currentMapCellY < 0 \/ currentMapCellY >= Len(MAP)
           noColumn == ~noRow /\ (currentMapCellX + 1) \notin DOMAIN MAP[currentMapCellY + 1]
           hit == IF exited \/ noRow THEN TRUE
                  ELSE IF noColumn THEN FALSE
                  ELSE MAP[currentMapCellY + 1][currentMapCellX + 1] = 1
       IN /\ \E e \in roundingErrors(ray.playerWorldPositionX, ray.playerWorldPositionY,
                                      ray.rayDirectionVectorX, ray.rayDirectionVectorY) :
                 ray' = [ray EXCEPT !.currentRayPositionX = x,
                                    !.currentRayPositionY = y,
                                    !.accumulatedRayDistance = acc,
                                    !.roundingError = e,
                                    !.indexedOutOfBounds = @ \/ (~exited /\ (noRow \/ noColumn)),
                                    !.unitSteps = @ + 1]
          /\ IF hit
             THEN /\ pc' = "rayReturned"
                  /\ rayResult' = [returned |-> TRUE,
                                   value |-> acc * ray.fisheyeCorrectionFactor]
             ELSE /\ pc' = "marching"
                  /\ rayResult' = rayResult
    /\ UNCHANGED <<MAP, MAX_LEN, ctx, open, gScore, fScore, parents, closed, currentK,
                   steps, result, collision, spawn>>

\* the while loop ends at the maximum distance
RayMaxDistance ==
    /\ pc = "marching"
    /\ ~belowMaxDistance(ray)
    /\ pc' = "rayReturned"
    /\ rayResult' = [returned |-> TRUE,
                     value |-> ray.accumulatedRayDistance * ray.fisheyeCorrectionFactor]
    /\ UNCHANGED <<MAP, MAX_LEN, ctx, open, gScore, fScore, parents, closed, currentK,
                   steps, result, ray, collision, spawn>>

\* the caller has the distance; the locals of the call are gone
RayCallerResumes ==
    /\ pc = "rayReturned"
    /\ pc' = "idle"
    /\ ray' = NoRay
    /\ rayResult' = NoRayResult
    /\ UNCHANGED <<MAP, MAX_LEN, ctx, open, gScore, fScore, parents, closed, currentK,
                   steps, result, collision, spawn>>

\* obstacle-free, one row, longer than the maximum distance
LongRow == << [i \in 1..(MAX_DISTANCE + 5) |-> 0] >>

RayGrids == {ShippedMAP, Open43, Ring5, LongRow}

\* largest cell index a ray starts in
MaxRayCell == 3
\* where in its cell a ray starts, in tenths
RayOffsets == {1, 5}
RayOrigins == {Units(c) + off : c \in 0..MaxRayCell, off \in RayOffsets}
\* the view angles tried: along the x axis, and oblique
Views == {1, 3}

\* a caller casts a ray
RayCall ==
    /\ pc = "idle"
    /\ \E a \in Angles, x \in RayOrigins, y \in RayOrigins, v \in Views : CastRay(a, x, y, v)
    /\ UNCHANGED <<MAP, MAX_LEN, ctx, open, gScore, fScore, parents, closed, currentK,
                   steps, result, collision, spawn>>

-----------------------------------------------------------------------------
(* checkWallCollision: docs/js/map.js lines 21-26 and 82-96.               *)

\* MAP[gridY][gridX] === 1 is false where the row has no such element (undefined)
isWallAt(gridX, gridY) ==
    /\ gridY >= 0
    /\ gridY < MAP_HEIGHT
    /\ gridX >= 0
    /\ gridX < MAP_WIDTH
    /\ gridX + 1 \in DOMAIN MAP[gridY + 1]
    /\ MAP[gridY + 1][gridX + 1] = 1

OFFSETS == << <<-1, -1>>, <<0, -1>>, <<1, -1>>, <<-1, 0>>, <<0, 0>>, <<1, 0>>,
             <<-1, 1>>, <<0, 1>>, <<1, 1>> >>

\* Math.floor of a length in tenths
floor(p) == p \div 10

\* OFFSETS.some(([dx, dy]) => isWallAt(floor(x + dx * radius), floor(y + dy * radius)))
checkWallCollision(x, y, radius) ==
    \E i \in 1..Len(OFFSETS) :
        isWallAt(floor(x + OFFSETS[i][1] * radius), floor(y + OFFSETS[i][2] * radius))

\* the coordinates probed, in tenths: in and around the cells rays start in, from
\* two cells below zero, so that probes fall outside the smaller grids
ProbeCoords == {Units(c) + off : c \in (-2)..(MaxRayCell + 2), off \in {1, 5, 9}}
\* the radii tried, in tenths: the default 0.2 and the enemies' 0.3; with these and
\* the offsets of ProbeCoords no sampled coordinate is a whole number, so the
\* rounding of x + dx * radius cannot change a floor
Radii == {2, 3}

\* a caller probes a position: the call returns at once
CollisionCall ==
    /\ pc = "idle"
    /\ \E x \in ProbeCoords, y \in ProbeCoords, radius \in Radii :
           collision' = [x |-> x, y |-> y, radius |-> radius, returned |-> TRUE,
                         value |-> checkWallCollision(x, y, radius)]
    /\ pc' = "probed"
    /\ UNCHANGED <<MAP, MAX_LEN, ctx, open, gScore, fScore, parents, closed, currentK,
                   steps, result, ray, rayResult, spawn>>

\* the caller has the answer
CollisionCallerResumes ==
    /\ pc = "probed"
    /\ pc' = "idle"
    /\ collision' = NoCollision
    /\ UNCHANGED <<MAP, MAX_LEN, ctx, open, gScore, fScore, parents, closed, currentK,
                   steps, result, ray, rayResult, spawn>>

InitRay ==
    /\ MAP \in RayGrids
    /\ MAX_LEN = Infinity
    /\ pc = "idle"
    /\ Blank
    /\ ray = NoRay
    /\ rayResult = NoRayResult
    /\ collision = NoCollision
    /\ spawn = NoSpawn

NextRay ==
    \/ RayCall
    \/ RayMarch
    \/ RayMaxDistance
    \/ RayCallerResumes
    \/ CollisionCall
    \/ CollisionCallerResumes

SpecRay == InitRay /\ [][NextRay]_vars

-----------------------------------------------------------------------------
(* Spawning an enemy: the enemy module, lines 9-71.  Positions are in      *)
(* tenths of a tile, as the lengths of checkWallCollision are.             *)

ENEMY_TYPE_ID == "ENEMY_1"
ENEMY_MAX_HEALTH == 100
ENEMY_COLLISION_RADIUS == 3
CANDIDATES == 8

\* bases next to the walls of the shipped grid: (5.5, 4.5) and (1.5, 1.5)
SpawnPointsByTheWall == << [x |-> 55, y |-> 45], [x |-> 15, y |-> 15],
                          [x |-> 55, y |-> 45], [x |-> 15, y |-> 15] >>
SAFE_SPAWN_POINTS == << [x |-> 35, y |-> 35], [x |-> 85, y |-> 35],
                       [x |-> 35, y |-> 85], [x |-> 85, y |-> 85] >>

\* Math.random() * 2 - 1 lies in [-1, 1): the values drawn, in tenths.  With the
\* bases at .5 and the radius 0.3 no sampled coordinate is a whole number.
TileOffsets == {-10, -7, -3, 0, 3, 7, 9}
\* Math.floor(Math.random() * SAFE_SPAWN_POINTS.length), as a 1-based index
BaseIndexes == 1..Len(SAFE_SPAWN_POINTS)
\* Date.now()
Clock == {1000, 2000}

pickBaseSpawnPoint(randomIndex) == SAFE_SPAWN_POINTS[randomIndex]

generateCandidateSpawnPoint(randomIndex, offsetX, offsetY) ==
    LET base == pickBaseSpawnPoint(randomIndex)
    IN  [x |-> base.x + offsetX, y |-> base.y + offsetY]

createEnemyAt(x, y, now) ==
    [x |-> x, y |-> y, health |-> ENEMY_MAX_HEALTH, type |-> ENEMY_TYPE_ID,
     lastMove |-> now, lastPathUpdate |-> 0, pathIndex |-> 0, path |-> null]

\* defaultTo({ x: 1.5, y: 1.5 })
DefaultSpawnPoint == [x |-> 15, y |-> 15]

\* the shipped grid with a pillar on the cell of each spawn base
PillarCells == {<<3, 3>>, <<8, 3>>, <<3, 8>>, <<8, 8>>}
Pillars12 == [gy \in 1..12 |-> [gx \in 1..12 |->
                 IF <<gx - 1, gy - 1>> \in PillarCells THEN 1 ELSE ShippedMAP[gy][gx]]]
SpawnGrids == {ShippedMAP, Pillars12}

\* a caller asks for an enemy
SpawnCall ==
    /\ pc = "idle"
    /\ pc' = "spawning"
    /\ spawn' = NoSpawn
    /\ UNCHANGED <<MAP, MAX_LEN, ctx, open, gScore, fScore, parents, closed, currentK,
                   steps, result, ray, rayResult, collision>>

\* times(...) draws one more candidate.  find(...) runs after all eight are
\* drawn and keeps the first that does not collide, so of the list only the
\* number drawn and the first candidate clear of the walls are kept.
GenerateCandidate ==
    /\ pc = "spawning"
    /\ spawn.tried < CANDIDATES
    /\ \E randomIndex \in BaseIndexes, offsetX \in TileOffsets, offsetY \in TileOffsets :
           LET candidate == generateCandidateSpawnPoint(randomIndex, offsetX, offsetY)
               free == ~checkWallCollision(candidate.x, candidate.y, ENEMY_COLLISION_RADIUS)
           IN  spawn' = IF ~spawn.found /\ free
                        THEN [spawn EXCEPT !.tried = @ + 1, !.found = TRUE,
                                           !.x = candidate.x, !.y = candidate.y]
                        ELSE [spawn EXCEPT !.tried = @ + 1]
    /\ UNCHANGED <<MAP, pc, MAX_LEN, ctx, open, gScore, fScore, parents, closed, currentK,
                   steps, result, ray, rayResult, collision>>

\* find, defaultTo and createEnemyAt once the eight candidates are drawn
spawnEnemy ==
    /\ pc = "spawning"
    /\ spawn.tried = CANDIDATES
    /\ \E now \in Clock :
           LET point == IF spawn.found THEN [x |-> spawn.x, y |-> spawn.y]
                        ELSE DefaultSpawnPoint
           IN  spawn' = [spawn EXCEPT !.returned = TRUE,
                                      !.enemy = createEnemyAt(point.x, point.y, now)]
    /\ pc' = "spawned"
    /\ UNCHANGED <<MAP, MAX_LEN, ctx, open, gScore, fScore, parents, closed, currentK,
                   steps, result, ray, rayResult, collision>>

\* the caller has the enemy
SpawnCallerResumes ==
    /\ pc = "spawned"
    /\ pc' = "idle"
    /\ spawn' = NoSpawn
    /\ UNCHANGED <<MAP, MAX_LEN, ctx, open, gScore, fScore, parents, closed, currentK,
                   steps, result, ray, rayResult, collision>>

InitSpawn ==
    /\ MAP \in SpawnGrids
    /\ MAX_LEN = Infinity
    /\ pc = "idle"
    /\ Blank
    /\ ray = NoRay
    /\ rayResult = NoRayResult
    /\ collision = NoCollision
    /\ spawn = NoSpawn

NextSpawn ==
    \/ SpawnCall
    \/ GenerateCandidate
    \/ spawnEnemy
    \/ SpawnCallerResumes

SpecSpawn == InitSpawn /\ [][NextSpawn]_vars

-----------------------------------------------------------------------------
(* Loading the grid: docs/js/map.js lines 1-20.  MAP is a literal of the   *)
(* module; loading the module evaluates MAP.length and MAP[0].length.      *)

\* rows of different lengths: a row shorter, and a row longer, than the first
Ragged3 == <<
    <<1, 1, 1, 1>>,
    <<1, 0, 0>>,
    <<1, 1, 1, 1>> >>
Ragged2 == <<
    <<0, 0>>,
    <<0, 0, 0, 1>> >>
\* no rows
EmptyMAP == << >>

LoadGrids == {ShippedMAP, Open43, Ring5, Ragged3, Ragged2, EmptyMAP}

\* the module body of map.js: const MAP_HEIGHT = MAP.length and
\* const MAP_WIDTH = MAP[0].length, the latter a TypeError when MAP has no row;
\* nothing else of the grid is looked at
LoadModule ==
    /\ pc = "loading"
    /\ pc' = IF Len(MAP) = 0 THEN "fatal" ELSE "idle"
    /\ UNCHANGED <<MAP, MAX_LEN, ctx, open, gScore, fScore, parents, closed, currentK,
                   steps, result, ray, rayResult, collision, spawn>>

InitLoad ==
    /\ MAP \in LoadGrids
    /\ MAX_LEN = Infinity
    /\ pc = "loading"
    /\ Blank
    /\ ray = NoRay
    /\ rayResult = NoRayResult
    /\ collision = NoCollision
    /\ spawn = NoSpawn

NextLoad ==
    \/ LoadModule
    \/ CollisionCall
    \/ CollisionCallerResumes

SpecLoad == InitLoad /\ [][NextLoad]_vars

-----------------------------------------------------------------------------
(* What the claims speak of, defined from the grid alone.                  *)

Width == Len(MAP[1])
Height == Len(MAP)

\* out of the grid's bounds, or occupied
Blocked(x, y) ==
    \/ x < 0 \/ x >= Width \/ y < 0 \/ y >= Height
    \/ MAP[y + 1][x + 1] = 1

FreeCells == {c \in (0..(Width - 1)) \X (0..(Height - 1)) : ~Blocked(c[1], c[2])}

IsDiagonal(a, b) == a[1] # b[1] /\ a[2] # b[2]

Adjacent8(a, b) == Max(Abs(a[1] - b[1]), Abs(a[2] - b[2])) = 1

\* a legal move: between 8-adjacent free cells, diagonal only when both cells
\* orthogonally adjacent to the step are free
LegalMove(a, b) ==
    /\ ~Blocked(a[1], a[2]) /\ ~Blocked(b[1], b[2])
    /\ Adjacent8(a, b)
    /\ IsDiagonal(a, b) => (~Blocked(b[1], a[2]) /\ ~Blocked(a[1], b[2]))

MoveCost(a, b) == IF IsDiagonal(a, b) THEN DIAGONAL ELSE STRAIGHT

SetMin(X) == CHOOSE m \in X : \A n \in X : m <= n

Around(c) == {<<c[1] + dx, c[2] + dy>> : dx \in -1..1, dy \in -1..1} \ {c}

\* cheapest cost of a legal path from a source cell to every free cell (Infinity: none)
RECURSIVE Relax(_, _)
Relax(d, n) ==
    LET d2 == [c \in DOMAIN d |->
                 SetMin({d[c]} \cup {Plus(d[p], MoveCost(p, c)) :
                                     p \in {q \in Around(c) : LegalMove(q, c)}})]
    IN IF d2 = d \/ n = 0 THEN d2 ELSE Relax(d2, n - 1)

MinCost(s, g) ==
    Relax([c \in FreeCells |-> IF c = s THEN 0 ELSE Infinity], Cardinality(FreeCells))[g]

Start == <<ctx.sx, ctx.sy>>
Goal == <<ctx.gx, ctx.gy>>

\* the cells a returned path visits, the start cell first
RECURSIVE Cells(_)
Cells(p) == IF p = <<>> THEN <<>> ELSE << <<p[1].x, p[1].y>> >> \o Cells(Tail(p))

Visited == <<Start>> \o Cells(result.path)

RECURSIVE CostOf(_)
CostOf(cs) == IF Len(cs) < 2 THEN 0 ELSE MoveCost(cs[1], cs[2]) + CostOf(Tail(cs))

Returned == pc = "returned"
ReturnedPath == pc = "returned" /\ result.kind = "path"
\* a call between two distinct free cells
Searched == pc = "returned" /\ ~Blocked(ctx.sx, ctx.sy) /\ ~Blocked(ctx.gx, ctx.gy)
            /\ Start # Goal

-----------------------------------------------------------------------------
(* Claims.                                                                 *)

\* C1: whenever findPath returns a path between distinct walkable cells, the sum of
\* its step costs, counted from the start cell, is the minimum cost over all legal
\* paths from start to goal; in particular on the 5x5 grid with border walls (and no
\* cap) findPath(1,1,3,3) returns a path ending at {3,3} of cost 2*DIAGONAL.
C1_OptimalCost ==
    Searched =>
        /\ result.kind = "path" => CostOf(Visited) = MinCost(Start, Goal)
        /\ (MAP = Border5 /\ MAX_LEN = Infinity /\ Start = <<1, 1>> /\ Goal = <<3, 3>>) =>
               /\ result.kind = "path"
               /\ result.path # <<>>
               /\ result.path[Len(result.path)] = [x |-> 3, y |-> 3]
               /\ CostOf(Visited) = 2 * DIAGONAL

AllFree == \A x \in 0..(Width - 1), y \in 0..(Height - 1) : ~Blocked(x, y)

\* C2: on an obstacle-free rectangular grid (no cap), for every start/goal pair of
\* cells the path findPath returns has cost H(start, goal).
C2_OctileOnOpenGrid ==
    (Returned /\ AllFree /\ MAX_LEN = Infinity
        /\ ~Blocked(ctx.sx, ctx.sy) /\ ~Blocked(ctx.gx, ctx.gy)) =>
        /\ result.kind = "path"
        /\ CostOf(Visited) = H(ctx.sx, ctx.sy, ctx.gx, ctx.gy)

NoCornerCutIn(cs) ==
    \A i \in 1..(Len(cs) - 1) :
        IsDiagonal(cs[i], cs[i + 1]) =>
            ~Blocked(cs[i + 1][1], cs[i][2]) /\ ~Blocked(cs[i][1], cs[i + 1][2])

WellFormedPath(cs) ==
    /\ cs[Len(cs)] = Goal
    /\ \A i \in 2..Len(cs) : cs[i] # Start
    /\ \A i \in 1..(Len(cs) - 1) : Adjacent8(cs[i], cs[i + 1])
    /\ \A i \in 1..Len(cs) : ~Blocked(cs[i][1], cs[i][2])

C5_InvalidEndpointNull ==
    (Returned /\ (Blocked(ctx.sx, ctx.sy) \/ Blocked(ctx.gx, ctx.gy))) =>
        /\ result = NullResult
        /\ steps = 0
        /\ open = <<>> /\ closed = EmptyObj /\ gScore = EmptyObj

\* C5 witness: a call with a walkable start and an occupied in-bounds goal returned null
C5_Witness ==
    /\ Returned
    /\ ~Blocked(ctx.sx, ctx.sy)
    /\ inBounds(ctx.gx, ctx.gy) /\ Blocked(ctx.gx, ctx.gy)
    /\ result = NullResult

\* C6: if start and goal are walkable but no legal path joins them, the search ends
\* with the open set empty and findPath returns null.
C6_UnreachableNull ==
    (Searched /\ MinCost(Start, Goal) = Infinity) =>
        /\ result = NullResult
        /\ MAX_LEN >= 0 => open = <<>>

\* C7: for every walkable cell s, findPath(s, s) returns the empty path (not null)
\* straight after validation, without running the search.
C7_SameCellEmptyPath ==
    (Returned /\ ~Blocked(ctx.sx, ctx.sy) /\ Start = Goal) =>
        /\ result = PathResult(<<>>)
        /\ steps = 0
        /\ open = <<>> /\ closed = EmptyObj /\ gScore = EmptyObj

\* C7 witness: a call with equal walkable endpoints returned the empty path
C7_Witness ==
    /\ Returned
    /\ ~Blocked(ctx.sx, ctx.sy) /\ Start = Goal
    /\ result.kind = "path" /\ result.path = <<>>

\* C8: with a finite cap MAX_PATH_LENGTH >= 0, findPath never returns a path whose
\* cost exceeds the cap, and it returns null whenever the cheapest legal path from
\* start to goal costs more than the cap (5x5 border-walled grid, cap 1,
\* findPath(1,1,3,3): null).
C8_CapRespected ==
    (Returned /\ MAX_LEN # Infinity /\ MAX_LEN >= 0) =>
        /\ result.kind = "path" => CostOf(Visited) <= MAX_LEN
        /\ (~Blocked(ctx.sx, ctx.sy) /\ ~Blocked(ctx.gx, ctx.gy)
            /\ MinCost(Start, Goal) > MAX_LEN) => result = NullResult

-----------------------------------------------------------------------------
(* Claims about castRay.                                                   *)

RayReturned == pc = "rayReturned"

\* the cell a point (in tenths) lies in, its coordinates truncated toward zero
CellOf(px, py) ==
    << IF px >= 0 THEN px \div 10 ELSE -((-px) \div 10),
       IF py >= 0 THEN py \div 10 ELSE -((-py) \div 10) >>

OriginCell == CellOf(ray.playerWorldPositionX, ray.playerWorldPositionY)

\* the origin lies inside the grid
OriginInside ==
    /\ ray.playerWorldPositionX >= 0 /\ ray.playerWorldPositionX < Units(Width)
    /\ ray.playerWorldPositionY >= 0 /\ ray.playerWorldPositionY < Units(Height)

\* the cell of the point k unit steps along the ray
CellAfter(k) ==
    CellOf(ray.playerWorldPositionX + k * Cos(ray.rayAngleRadians),
           ray.playerWorldPositionY + k * Sin(ray.rayAngleRadians))

OutsideGrid(c) == c[1] < 0 \/ c[1] >= Width \/ c[2] < 0 \/ c[2] >= Height

Fisheye == CosOfDifference(ray.rayAngleRadians, ray.playerFacingAngleRadians)

\* C9 as stated: against a grid in which every cell is walkable castRay returns, for
\* every origin inside the grid and every angle, MAX_DISTANCE times the fisheye factor.
C9_MaxRangeOnOpenGrid ==
    (RayReturned /\ AllFree /\ OriginInside) =>
        rayResult.value = Units(MAX_DISTANCE) * Fisheye

\* the unit steps of the ray in flight that land outside the grid
ExitSteps == {k \in 1..(MAX_DISTANCE + 1) : OutsideGrid(CellAfter(k))}

\* C9 amended: against an all-walkable grid castRay returns the distance reached at
\* the unit step where the march stops, times the fisheye factor: the first unit
\* step that lands outside the grid, or, when none does before the accumulated
\* distance stops being below MAX_DISTANCE, unit step MAX_DISTANCE or (the rounded
\* distance still being below MAX_DISTANCE there) the one after it.
C9_ExitOrMaxRange ==
    (RayReturned /\ AllFree /\ OriginInside) =>
        /\ \A k \in ExitSteps : ray.unitSteps <= k
        /\ ray.unitSteps < MAX_DISTANCE => ray.unitSteps \in ExitSteps
        /\ ray.unitSteps <= MAX_DISTANCE + 1
        /\ rayResult.value = Units(ray.unitSteps) * Fisheye

\* C9 witness: a ray over an all-walkable grid returned short of the maximum range
C9_Witness ==
    /\ RayReturned /\ AllFree /\ OriginInside
    /\ ray.unitSteps < MAX_DISTANCE
    /\ Fisheye # 0
    /\ rayResult.value = Units(ray.unitSteps) * Fisheye
    /\ rayResult.value # Units(MAX_DISTANCE) * Fisheye

Sign(n) == IF n > 0 THEN 1 ELSE IF n < 0 THEN -1 ELSE 0

IsWall(c) == ~OutsideGrid(c) /\ MAP[c[2] + 1][c[1] + 1] = 1

\* the cell next to the origin's cell on the side the ray points to
SignNeighbour ==
    <<OriginCell[1] + Sign(Cos(ray.rayAngleRadians)),
      OriginCell[2] + Sign(Sin(ray.rayAngleRadians))>>

\* the first cell the ray enters on leaving the origin's cell: it crosses the cell's
\* x border first, its y border first, or both at once (through the corner)
DistToBorder(p, c, d) == IF d > 0 THEN Units(c + 1) - p ELSE p - Units(c)
FirstEntered ==
    LET dx == Cos(ray.rayAngleRadians)
        dy == Sin(ray.rayAngleRadians)
        bx == DistToBorder(ray.playerWorldPositionX, OriginCell[1], dx)
        by == DistToBorder(ray.playerWorldPositionY, OriginCell[2], dy)
        \* crossing times bx/|dx| and by/|dy|, compared by cross-multiplication
        xFirst == dy = 0 \/ (dx # 0 /\ bx * Abs(dy) < by * Abs(dx))
        yFirst == dx = 0 \/ (dy # 0 /\ by * Abs(dx) < bx * Abs(dy))
    IN IF xFirst THEN <<OriginCell[1] + Sign(dx), OriginCell[2]>>
       ELSE IF yFirst THEN <<OriginCell[1], OriginCell[2] + Sign(dy)>>
       ELSE SignNeighbour

\* the neighbouring cell in the ray's direction is a wall, however that cell is read
NextCellIsWall == IsWall(SignNeighbour) /\ IsWall(FirstEntered)

OriginWalkable == OriginInside /\ ~Blocked(OriginCell[1], OriginCell[2])

\* C10 as stated: with the origin in a walkable cell whose neighbouring cell in the
\* ray's direction is a wall, castRay stops after exactly one unit step and returns
\* 1 world unit times the fisheye factor.
C10_OneUnitAtAdjacentWall ==
    (RayReturned /\ OriginWalkable /\ NextCellIsWall) =>
        /\ ray.unitSteps = 1
        /\ rayResult.value = Units(1) * Fisheye

AxisAligned == Cos(ray.rayAngleRadians) = 0 \/ Sin(ray.rayAngleRadians) = 0

\* C10 amended: with the origin in a walkable cell, castRay stops after exactly one
\* unit step, returning 1 world unit times the fisheye factor, exactly when the point
\* one unit along the ray lies in a wall cell or outside the grid; that is so for
\* every axis-aligned ray whose neighbouring cell in its direction is a wall.
C10_OneUnitIffFirstStepBlocked ==
    (RayReturned /\ OriginWalkable) =>
        /\ ray.unitSteps = 1 <=> (IsWall(CellAfter(1)) \/ OutsideGrid(CellAfter(1)))
        /\ ray.unitSteps = 1 => rayResult.value = Units(1) * Fisheye
        /\ (AxisAligned /\ NextCellIsWall) => ray.unitSteps = 1

\* C10 witness: a ray whose neighbouring cell is a wall returned after one unit step
C10_Witness ==
    /\ RayReturned /\ OriginWalkable /\ NextCellIsWall
    /\ ray.unitSteps = 1
    /\ Fisheye # 0
    /\ rayResult.value = Units(1) * Fisheye

\* C11: castRay returns after at most MAX_DISTANCE unit steps, and the uncorrected
\* accumulated distance it returns (rounding error left aside) never exceeds
\* MAX_DISTANCE, whatever the origin, the angle and the grid.
C11_AtMostMaxDistanceSteps ==
    RayReturned =>
        /\ ray.unitSteps <= MAX_DISTANCE
        /\ ray.accumulatedRayDistance <= Units(MAX_DISTANCE)

\* C12: the value castRay returns is non-negative for every ray angle, origin and
\* view angle.
C12_NonNegative == RayReturned => rayResult.value >= 0

-----------------------------------------------------------------------------
(* Claims about checkWallCollision.                                        *)

Probed == pc = "probed"

\* the nine cells checkWallCollision samples around the probed position
SampledCells ==
    {<<(collision.x + dx * collision.radius) \div 10,
       (collision.y + dy * collision.radius) \div 10>> : dx \in -1..1, dy \in -1..1}

\* C13: checkWallCollision(x, y, radius) returns true exactly when at least one of
\* the nine sampled cells is not walkable, a cell outside the grid bounds counting
\* as not walkable.
C13_CollisionIffSampleBlocked ==
    Probed => (collision.value <=> \E c \in SampledCells : Blocked(c[1], c[2]))

\* empty, or its rows are not all of one length
Malformed(grid) ==
    \/ Len(grid) = 0
    \/ \E i \in 1..Len(grid) : Len(grid[i]) # Len(grid[1]) \/ Len(grid[i]) = 0

\* C15: a malformed grid (empty, or with rows of different lengths) is rejected when
\* the grid is loaded: loading it never succeeds, and no query is ever answered
\* over it.
C15_MalformedGridRejected ==
    Malformed(MAP) => (pc # "idle" /\ pc # "probed")

-----------------------------------------------------------------------------
(* Claims about the A* loop.                                               *)

InLoop == pc = "search"

\* the coordinates in the open list, as keys
OpenKeys == {key(open[i].x, open[i].y) : i \in 1..Len(open)}

ClosedKeys == DOMAIN closed

\* a turn of the loop: step(goal) is applied and returns the next state
StepTaken == pc = "search" /\ pc' = "search"

\* the loop is left through its stop test and finalize, not through an error
LoopEndsByStopTest == (pc = "search" /\ pc' = "returned") => result'.kind \in {"null", "path"}

\* the entries a turn of the loop appends to the open list: step keeps the rest of
\* the list in order, minus the popped entry
AppendedKeys == {key(open'[i].x, open'[i].y) : i \in Len(open)..Len(open')}

C17_PicksFirstMinimalF ==
    InLoop =>
        LET idx == pickBestIndex(open)
        IN /\ open = <<>> <=> idx = NullIdx
           /\ open # <<>> =>
                  /\ idx.t = "index"
                  /\ idx.i \in 0..(Len(open) - 1)
                  /\ \A j \in 1..Len(open) : open[idx.i + 1].f <= open[j].f
                  /\ \A j \in 1..idx.i : open[j].f > open[idx.i + 1].f

\* cheapest cost of a legal path from the start cell to every free cell
MinCostsFromStart ==
    Relax([c \in FreeCells |-> IF c = Start THEN 0 ELSE Infinity], Cardinality(FreeCells))

CellOfKey(k) == <<unkey(k)[1], unkey(k)[2]>>

MinCostsToGoal ==
    Relax([c \in FreeCells |-> IF c = Goal THEN 0 ELSE Infinity], Cardinality(FreeCells))

\* the heuristic toward the goal of the search in flight
HToGoal(c) == H(c[1], c[2], ctx.gx, ctx.gy)

\* C19: with the default costs the heuristic is admissible and consistent on the
\* grid of every search: H(goal, goal) = 0, H(a, goal) is at most the cheapest
\* legal path cost from a to goal for every free cell a, and
\* H(a, goal) <= c + H(b, goal) for every legal move from a to b of cost c.
\* (H reads neither the cap nor the start cell: the searches without a cap cover
\* every grid and goal.)
C19_HAdmissibleConsistent ==
    (InLoop /\ MAX_LEN = Infinity) =>
        /\ STRAIGHT <= DIAGONAL /\ DIAGONAL <= 2 * STRAIGHT
        /\ HToGoal(Goal) = 0
        /\ LET cheapest == MinCostsToGoal
           IN \A a \in FreeCells : HToGoal(a) <= cheapest[a]
        /\ \A a \in FreeCells : \A b \in Around(a) :
               LegalMove(a, b) => HToGoal(a) <= MoveCost(a, b) + HToGoal(b)

\* C19 witness: a search was set up with the f of its start cell the heuristic, on a
\* grid where walls make the cheapest path to the goal cost more than the heuristic
C19_Witness ==
    /\ InLoop /\ MAX_LEN = Infinity
    /\ fScore[startK] = HToGoal(Start)
    /\ HToGoal(Start) > 0
    /\ MinCostsToGoal[Start] < Infinity
    /\ HToGoal(Start) < MinCostsToGoal[Start]

\* C20: every findPath call ends by yielding a path or null: the loop stops by its
\* stop test and path reconstruction stops at the start cell, without an exception
\* and without unbounded recursion.
C20_YieldsPathOrNull == Returned => result.kind \in {"path", "null"}

-----------------------------------------------------------------------------
(* Further claims about castRay, the A* loop and spawnEnemy.               *)

\* the point k unit steps along the ray in flight lies outside the grid or in a wall
StopsRay(k) == OutsideGrid(CellAfter(k)) \/ IsWall(CellAfter(k))

\* C21: castRay returns at the first unit step whose position, truncated toward
\* zero, lies outside the grid or in a cell of value 1 (short of that only by
\* reaching the maximum distance); the raw distance it returns is the one
\* accumulated at exactly that step; it never indexes MAP out of bounds.
C21_StopsAtFirstBlockedStep ==
    /\ ~ray.indexedOutOfBounds
    /\ pc = "marching" => \A k \in 1..ray.unitSteps : ~StopsRay(k)
    /\ RayReturned =>
           /\ \A k \in 1..(ray.unitSteps - 1) : ~StopsRay(k)
           /\ StopsRay(ray.unitSteps) \/ ray.unitSteps >= MAX_DISTANCE
           /\ ray.accumulatedRayDistance = Units(ray.unitSteps)
           /\ rayResult.value = Units(ray.unitSteps) * Fisheye

\* C21 witness: a ray crossed walkable cells and returned at the first wall cell
C21_Witness ==
    /\ RayReturned
    /\ ray.unitSteps >= 2
    /\ IsWall(CellAfter(ray.unitSteps))
    /\ \A k \in 1..(ray.unitSteps - 1) : ~StopsRay(k)
    /\ ray.accumulatedRayDistance = Units(ray.unitSteps)

\* the coordinates the search has discovered, as keys
Discovered == DOMAIN gScore

\* the invariant of the parent relation
ParentsWellFormed ==
    /\ gScore[startK] = 0
    /\ parents[startK] = null
    /\ \A k \in Discovered \ {startK} :
           LET p == parents[k]
           IN /\ p \in ClosedKeys
              /\ LegalMove(CellOfKey(p), CellOfKey(k))
              /\ gScore[k] = gScore[p] + MoveCost(CellOfKey(p), CellOfKey(k))
              /\ fScore[k] = gScore[k] + HToGoal(CellOfKey(k))

C23_WithinCapPathFound ==
    (Searched /\ MinCost(Start, Goal) < Infinity /\ MinCost(Start, Goal) <= MAX_LEN) =>
        (result.kind = "path" /\ result.path # <<>> /\ CostOf(Visited) <= MAX_LEN)

\* C24: for MAX_PATH_LENGTH >= 0, every entry of the open list has gScore at most
\* MAX_PATH_LENGTH in every state the loop reaches, hardStopByG is never true
\* while the open list is non-empty, and the loop is only ever left because the
\* goal was popped or the open list became empty.
C24_LoopStopsOnlyAtGoalOrEmpty ==
    [][MAX_LEN >= 0 =>
        /\ InLoop' => /\ \A i \in 1..Len(open') :
                             get(gScore', key(open'[i].x, open'[i].y), Infinity) <= MAX_LEN
                      /\ open' # <<>> => ~hardStopByG(S')
        /\ (pc = "search" /\ pc' = "returned") => (open = <<>> \/ currentK = goal.k)]_vars

\* spawnEnemy has returned an enemy
SpawnReturned == pc = "spawned" /\ spawn.returned

\* C25: on the shipped MAP spawnEnemy returns a fully constructed enemy (health
\* 100, path null, pathIndex 0) standing where checkWallCollision at radius 0.3
\* is false; its position is the first of the eight candidates that did not
\* collide or, when all eight collided, the default (1.5, 1.5).
C25_SpawnsClearOfWalls ==
    SpawnReturned =>
        LET enemy == spawn.enemy
        IN  /\ DOMAIN enemy = {"x", "y", "health", "type", "lastMove", "lastPathUpdate",
                               "pathIndex", "path"}
            /\ enemy.health = 100
            /\ enemy.path = null
            /\ enemy.pathIndex = 0
            /\ IF spawn.found
               THEN /\ enemy.x = spawn.x /\ enemy.y = spawn.y
                    /\ ~checkWallCollision(spawn.x, spawn.y, 3)
               ELSE enemy.x = 15 /\ enemy.y = 15
            /\ MAP = ShippedMAP => ~checkWallCollision(enemy.x, enemy.y, 3)

\* an enemy spawned on the shipped MAP at a candidate away from its base
C25_Witness ==
    /\ SpawnReturned
    /\ MAP = ShippedMAP
    /\ spawn.found
    /\ spawn.enemy.x = 44 /\ spawn.enemy.y = 75

====
